---- MODULE Spec2Model ----
(***************************************************************************)
(* whapp-irc: the event-translation bridge (handleWhappMessage,            *)
(* handleWhappNotification, downloadAndStoreMedia, getMessageBody) and the *)
(* IRC session (HandleConnection's reader and watcher goroutines, Write).  *)
(***************************************************************************)
EXTENDS Integers, Sequences, FiniteSets, TLC

\* ------------------------------------------------------------------ bounds
MaxMsgID == 2
MaxTimestamp == 2
\* Lines the peer sends in a session: application commands, and
\* housekeeping or malformed lines.
MaxApp == 2
MaxHousekeeping == 2
\* Lines a flooding peer sends beyond the inbound queue's capacity.
MaxOverflow == 3
\* Listeners of NickSetChannel() registered at one time.
MaxListeners == 1
\* Persistence goroutines started and not yet run that are followed.
MaxSaves == 1

\* ircconnection.go: const queueSize.
queueSize == 10

\* ------------------------------------------------------------ bridge: data
SelfID == "me"
MsgIDs == 1..MaxMsgID
Timestamps == 1..MaxTimestamp
GroupID == "g1"
DirectID == "p1"
ChatIDs == {GroupID, DirectID}
NoTimestamp == 0

\* conn.irc.Nick(), ircconnection.go lines 191-193: the field conn.nick as
\* the read finds it, as an IRC name.
Nick(n) == <<"nick", n>>
\* The nicks the IRC user takes, each once and in this order; "" is the
\* field before the first NICK.
NickValues == {"alice", "bob"}
NextNicks(old) ==
  CASE old = "" -> {"alice"} [] old = "alice" -> {"bob"} [] OTHER -> {}
\* setNick (line 185) writes the field with no synchronisation, and a
\* string is two words, pointer and length. A read that meets the write can
\* take one word of each. Of two nicks that leaves a string of the wrong
\* length (Torn); of the empty first value (no pointer) and a nick it
\* leaves the new length with no pointer (Bad), whose use faults, or the
\* empty string again.
Torn == "torn"
Bad == "bad"
NoWrite == "none"
TornReads(old) == IF old = "" THEN {Bad} ELSE {Torn}
\* What one call of Nick() can return: field the value of conn.nick,
\* writing the nick setNick is storing at that moment (NoWrite: none).
NickRead(field, writing) ==
  IF writing = NoWrite THEN {field}
  ELSE {field, writing} \cup TornReads(field)
\* The reads of Nick() one run of the handler makes, by their place: in
\* joinChat, then at line 147, 154 or 201 (one of them at most), then at
\* line 210.
JoinRead == 1
FirstRead == 2
SecondRead == 3

\* msg.Chat.IsGroupChat of the upstream chat value.
RawIsGroupChat(c) == c = GroupID

\* types.Participant.SafeName, ChatListItem.Identifier and whapp.ID.User:
\* three different name spaces, kept apart by a tag.
SafeName(id) == <<"safe", id>>
Identifier(c) == <<"ident", c>>
User(id) == <<"user", id>>

\* The outcomes of msg.Chat.Participants(ctx, conn.WI): an error, or a list.
ParticipantLists(c) == IF c = "g1" THEN {{}, {"p1", "p2"}} ELSE {{"p1"}}
FetchOutcomes(c) ==
  {[err |-> TRUE, participants |-> {}]}
  \cup {[err |-> FALSE, participants |-> p] : p \in ParticipantLists(c)}

\* ------------------------------------------------- bridge: message values
TextContent == [Location |-> FALSE, IsMMS |-> FALSE, MediaFileHash |-> "",
                Caption |-> "", Body |-> "text"]
QuotedContent == [Location |-> FALSE, IsMMS |-> FALSE, MediaFileHash |-> "",
                  Caption |-> "", Body |-> "quoted"]
MediaHash == "h1"
MediaContent == [Location |-> FALSE, IsMMS |-> TRUE, MediaFileHash |-> MediaHash,
                 Caption |-> "cap", Body |-> ""]
LocationContent == [Location |-> TRUE, IsMMS |-> FALSE, MediaFileHash |-> "",
                    Caption |-> "", Body |-> ""]

\* A whapp.Message, with the fields the bridge reads. QuotedMessage is <<>>
\* (nil) or a one-element sequence holding the quoted message's content.
MkMsg(id, chat, ts, typ, sub, notif, byMe, fromWeb, sender, from, rcpts, content, quoted) ==
  [ID |-> id, Chat |-> chat, Timestamp |-> ts, Type |-> typ, Subtype |-> sub,
   IsNotification |-> notif, IsSentByMe |-> byMe, IsSentByMeFromWeb |-> fromWeb,
   Sender |-> sender, From |-> from, RecipientIDs |-> rcpts,
   Location |-> content.Location, IsMMS |-> content.IsMMS,
   MediaFileHash |-> content.MediaFileHash, Caption |-> content.Caption,
   Body |-> content.Body, QuotedMessage |-> quoted]

\* Plain chat messages: (sender, IsSentByMe, IsSentByMeFromWeb, content,
\* quoted, from). The upstream client leaves Sender nil on some of them.
PlainShapes ==
  { <<"p1", FALSE, FALSE, TextContent, <<>>, "p1">>,
    <<"p1", FALSE, FALSE, TextContent, <<QuotedContent>>, "p1">>,
    <<"p1", FALSE, FALSE, TextContent, <<MediaContent>>, "p1">>,
    <<"p1", FALSE, FALSE, MediaContent, <<>>, "p1">>,
    <<"p1", FALSE, FALSE, LocationContent, <<>>, "p1">>,
    <<"me", TRUE, FALSE, TextContent, <<>>, "me">>,
    <<"me", TRUE, TRUE, TextContent, <<>>, "me">>,
    <<"nil", FALSE, FALSE, TextContent, <<>>, "p1">>,
    <<"nil", FALSE, FALSE, TextContent, <<QuotedContent>>, "p1">>,
    <<"nil", TRUE, FALSE, TextContent, <<>>, "me">> }

\* Message IDs are unique per chat; the direct chat sees one of them.
PlainMessages ==
  { MkMsg(id, GroupID, ts, "chat", "", FALSE, s[2], s[3], s[1], s[6], <<>>, s[4], s[5]) :
      id \in MsgIDs, ts \in Timestamps, s \in PlainShapes }
  \cup
  { MkMsg(1, DirectID, ts, "chat", "", FALSE, s[2], s[3], s[1], s[6], <<>>, s[4], s[5]) :
      ts \in Timestamps, s \in PlainShapes }

E2EMessages ==
  { MkMsg(id, GroupID, ts, "e2e_notification", "encrypt", TRUE, FALSE, FALSE,
          "nil", "p1", <<>>, TextContent, <<>>) : id \in MsgIDs, ts \in Timestamps }

Subtypes == {"create", "add", "invite", "leave", "remove", "miss", "poll_vote"}
RecipientLists == { <<SelfID>>, <<"p2", SelfID>>, <<"p1">> }

\* Group notifications: (subtype, recipients, sender, from).
Gp2Shapes ==
  { <<sub, r, "p1", "p1">> : sub \in Subtypes, r \in RecipientLists }
  \cup { <<sub, <<"p2", SelfID>>, SelfID, SelfID>> : sub \in {"remove", "miss"} }
  \cup { <<sub, <<"p1">>, "nil", "p2">> : sub \in {"remove", "add"} }
  \cup { <<"leave", <<>>, "p1", "p1">>, <<"leave", <<SelfID, "p2">>, "p1", "p1">> }

Gp2Messages ==
  { MkMsg(id, GroupID, ts, "gp2", s[1], TRUE, FALSE, FALSE, s[3], s[4], s[2],
          TextContent, <<>>) : id \in MsgIDs, ts \in Timestamps, s \in Gp2Shapes }

OtherNotifications ==
  { MkMsg(1, DirectID, ts, "call_log", "miss", TRUE, FALSE, FALSE, "p1", "p1",
          <<SelfID>>, TextContent, <<>>) : ts \in Timestamps }
  \cup
  { MkMsg(id, GroupID, ts, "revoked", "", TRUE, FALSE, FALSE, "p1", "p1",
          <<SelfID>>, TextContent, <<>>) : id \in MsgIDs, ts \in Timestamps }

Messages == PlainMessages \cup E2EMessages \cup Gp2Messages \cup OtherNotifications

\* --------------------------------------------------------------- variables
VARIABLES
  Chats,         \* conn.Chats: chat ID -> registry entry
  timestampMap,  \* conn.timestampMap: chat ID -> last timestamp (0: none)
  fs,            \* the blob store, shared by the connections: its hashes
  other,         \* another connection's media handler: "idle", "missed"
  saves,         \* saveDatabaseEntry goroutines started and not yet run
  db,            \* the persisted timestamps
  nickWrite,     \* the nick setNick is storing (line 185), NoWrite if none
  scene,         \* what goes on around the connection's handler
  last,          \* the handler's run: the event, where it is, what it produced
  failed         \* an event that failed after its ID was recorded, if followed

bridgeVars == <<Chats, timestampMap, fs, other, saves, db, nickWrite, scene, last, failed>>

VARIABLES
  profile,     \* which peer and application the session has
  sent,        \* lines the peer has sent: [app, hk]
  inbuf,       \* lines sent and not yet decoded
  peer,        \* "up", "eof" (closed after the lines sent) or "reset"
  rpc,         \* the reader goroutine's position
  cur,         \* the message the reader holds
  rq,          \* the socket writes the reader's current Write has left
  stopCause,   \* why the reader loop ended ("" while it runs)
  caps,        \* conn.Caps: the tokens
  negotiating, \* conn.Caps: the negotiation flag
  nick,        \* conn.nick
  pass,        \* conn.pass
  passCh,      \* "open" or "closed"
  passOnce,    \* the sync.Once: has it run
  passStats,   \* [lines, closes]: PASS lines handled, close(passCh) calls
  nickSub,     \* emitter.Once("nick") listeners: registered, and taking an event
  receiveCh,   \* the buffered channel's content
  chClosed,    \* close(conn.receiveCh) has run
  ctxDone,     \* the session's context is cancelled
  extCancel,   \* the owning context was cancelled from outside
  sockClosed,  \* conn.irc.Close() has run
  watcher,     \* the watcher goroutine: "waiting" or "done"
  sock,        \* what reached the socket, one entry per write call
  received,    \* what the consumer took from ReceiveChannel()
  writers      \* the other writers: writer -> its state

\* The session's variables but nick, which the bridge reads.
ircRest == <<profile, sent, inbuf, peer, rpc, cur, rq, stopCause, caps, negotiating,
             pass, passCh, passOnce, passStats, nickSub, receiveCh, chClosed,
             ctxDone, extCancel, sockClosed, watcher, sock, received, writers>>

ircVars == <<profile, sent, inbuf, peer, rpc, cur, rq, stopCause, caps, negotiating,
             nick, pass, passCh, passOnce, passStats, nickSub, receiveCh, chClosed,
             ctxDone, extCancel, sockClosed, watcher, sock, received, writers>>

vars == <<Chats, timestampMap, fs, other, saves, db, nickWrite, scene, last, failed,
          profile, sent, inbuf, peer, rpc, cur, rq, stopCause, caps, negotiating,
          nick, pass, passCh, passOnce, passStats, nickSub, receiveCh, chClosed,
          ctxDone, extCancel, sockClosed, watcher, sock, received, writers>>

\* ------------------------------------------------ bridge: the collaborators
\* conn.Chats.ByID(id, false): the entry and whether it was found.
NoChat == [has |-> FALSE, IsGroupChat |-> FALSE, Joined |-> FALSE,
           MessageIDs |-> {}, Participants |-> {}]
ByID(chats, id) == IF id \in ChatIDs THEN chats[id] ELSE NoChat

\* conn.convertChat(msg.Chat, participants): a fresh entry, not joined,
\* with no message seen.
convertChat(c, participants) ==
  [has |-> TRUE, IsGroupChat |-> RawIsGroupChat(c), Joined |-> FALSE,
   MessageIDs |-> {}, Participants |-> participants]

\* conn.addChat(chat): registers the entry under its ID.
addChat(chats, c, chat) == [chats EXCEPT ![c] = chat]

\* chat.HasMessageID / chat.AddMessageID on the registry's entry.
HasMessageID(chat, id) == id \in chat.MessageIDs
AddMessageID(chats, c, id) ==
  [chats EXCEPT ![c].MessageIDs = @ \cup {id}]

\* item.Chat is the registry's own entry: chat.Joined = v is seen by the
\* next lookup.
SetJoined(chats, c, v) == [chats EXCEPT ![c].Joined = v]

\* conn.joinChat(item): writes the join sequence (JOIN and the channel's
\* bootstrap state) for the local user, whose nick it reads, and marks the
\* chat joined; on failure returns the error. A nick read without its
\* pointer faults when the line is built.
JoinSequence(c, who) == <<[k |-> "join", who |-> who, chan |-> Identifier(c)]>>
joinChat(chats, c, ok, who) ==
  IF who = Nick(Bad) THEN [err |-> "panic", out |-> <<>>, Chats |-> chats]
  ELSE IF ok THEN [err |-> "nil", out |-> JoinSequence(c, who),
                   Chats |-> SetJoined(chats, c, TRUE)]
  ELSE [err |-> "join", out |-> <<>>, Chats |-> chats]

\* conn.timestampMap.Get / Set.
TimestampGet(tm, c) == [found |-> tm[c] # NoTimestamp, value |-> tm[c]]
TimestampSet(tm, c, ts) == [tm EXCEPT ![c] = ts]

\* fs.GetFileByHash(hash): found or not.
GetFileByHash(store, hash) == hash \in store

\* msg.Time(): the event time of the message, from its timestamp.
Time(msg) == <<"unix", msg.Timestamp>>

\* A formatted body: the base text, and the caption appended to it ("" for
\* none). msg.FormatBody / msg.FormatCaption resolve mentions against the
\* chat's participants.
FormatBody(m, participants) == <<"body", m.Body, participants>>
FormatCaption(m, participants) == <<"caption", m.Caption, participants>>
NoCaption == <<"caption", "", {}>>

\* -------------------------------------------------- bridge: getMessageBody
getMessageBody(m, participants, store) ==
  IF m.Location THEN [res |-> <<"map-link", "", {}>>, caption |-> NoCaption]
  ELSE IF m.IsMMS THEN
    LET res == IF GetFileByHash(store, m.MediaFileHash)
               THEN <<"url", m.MediaFileHash, {}>> ELSE <<"--file--", "", {}>>
    IN IF m.Caption # ""
       THEN [res |-> res, caption |-> FormatCaption(m, participants)]
       ELSE [res |-> res, caption |-> NoCaption]
  ELSE [res |-> FormatBody(m, participants), caption |-> NoCaption]

\* ------------------------------------------------ bridge: the handler's run
\* A run of handleWhappMessage is a record s: where the handler is (pc),
\* what it has returned, written and called so far, its local variables,
\* and the state it works on (Chats, timestampMap, fs). The handler stays
\* at a pc while it waits in a call: "fetch" (line 113), "join" (122),
\* "download" (80), "store" (93), "relay" (fn, 164 and 170), "write"
\* (227-250); the other positions are accesses to state that other
\* goroutines read or write: "record" (134, 135), "names" (147, 154),
\* "lookup" (79), "body" (getMessageBody's read of fs, 162 and 169),
\* "notify" (201), "recipient" (210). Each operator below
\* is the code from one position to the next.
NoName == <<"none", "">>
Ends == {"returned", "panic"}
Returns(s, err) == [s EXCEPT !.pc = "returned", !.ret = err]
\* A nil dereference or a fault: the goroutine panics, nothing recovers,
\* the process ends.
Panics(s) == [s EXCEPT !.pc = "panic", !.ret = "panic"]

\* One call of the MessageHandler fn with Message{from, to, body, quoted, &msg}.
Relay(from, to, body, quoted, msg, ok) ==
  [k |-> "fn", from |-> from, to |-> to, body |-> body, quoted |-> quoted,
   id |-> msg.ID, ok |-> ok]

\* Lines 161-170, swapped: the primary relay first, then the quoted one.
PrimaryThenQuoted(msg) ==
  IF msg.QuotedMessage # <<>> THEN <<FALSE, TRUE>> ELSE <<FALSE>>
\* Lines 161-170: the calls of fn to make, by their quoted flag: the quoted
\* relay if there is a quoted message, then the primary one.
QuotedThenPrimary(msg) ==
  IF msg.QuotedMessage # <<>> THEN <<TRUE, FALSE>> ELSE <<FALSE>>

ToRelays(s, msg) == [s EXCEPT !.pc = "body", !.plan = QuotedThenPrimary(msg)]

\* No body computed.
NoBody == [res |-> <<"", "", {}>>, caption |-> NoCaption]
\* Line 162 or 169: the body of the next relay, from the blob store as it
\* is now; then the handler calls fn with it.
BodyStep(s, msg) ==
  LET m == IF Head(s.plan) THEN msg.QuotedMessage[1] ELSE msg
  IN [s EXCEPT !.body = getMessageBody(m, s.Chats[msg.Chat].Participants, s.fs),
               !.pc = "relay"]

\* Lines 163-166 or 170: fn returns from the call with the body computed
\* before it; ok: fn returns no error. fn builds the IRC line of from and
\* to: a nick read without its pointer faults there.
RelayStep(s, msg, ok) ==
  LET quoted == Head(s.plan)
      faults == Nick(Bad) \in {s.from, s.to}
      s1 == [s EXCEPT !.out = @ \o <<Relay(s.from, s.to, s.body, quoted, msg,
                                           ok /\ ~faults)>>,
                      !.plan = Tail(@)]
  IN IF faults THEN Panics(s1)
     ELSE IF ~ok THEN Returns(s1, "fn")
     ELSE IF s1.plan = <<>> THEN Returns(s1, "nil")
     ELSE [s1 EXCEPT !.pc = "body"]

\* ------------------------------------------- bridge: downloadAndStoreMedia
\* Line 75, and where the handler goes on without media.
ToMedia(s, msg) == IF ~msg.IsMMS THEN ToRelays(s, msg) ELSE [s EXCEPT !.pc = "lookup"]

\* The function with the lookup's answer taken for a miss.
downloadIgnoringLookup(s, msg, ok) ==
  CASE s.pc = "lookup" ->
         [s EXCEPT !.calls = @ \o <<"GetFileByHash">>, !.pc = "download"]
    [] s.pc = "download" ->
         LET s1 == [s EXCEPT !.calls = @ \o <<"DownloadMedia">>]
         IN IF ~ok THEN Returns(s1, "download") ELSE [s1 EXCEPT !.pc = "store"]
    [] s.pc = "store" ->
         LET s1 == [s EXCEPT !.calls = @ \o <<"AddBlob">>]
         IN IF ~ok THEN Returns(s1, "store")
            ELSE ToRelays([s1 EXCEPT !.fs = @ \cup {msg.MediaFileHash}], msg)
\* Lines 79-102, one call at a time: the lookup (79), then on a miss
\* msg.DownloadMedia() (80) and fs.AddBlob() (93); ok: the call at s.pc
\* returns no error.
downloadAndStoreMedia(s, msg, ok) ==
  CASE s.pc = "lookup" ->
         LET s1 == [s EXCEPT !.calls = @ \o <<"GetFileByHash">>]
         IN IF ~GetFileByHash(s.fs, msg.MediaFileHash)
            THEN [s1 EXCEPT !.pc = "download"]
            ELSE ToRelays(s1, msg)
    [] s.pc = "download" ->
         LET s1 == [s EXCEPT !.calls = @ \o <<"DownloadMedia">>]
         IN IF ~ok THEN Returns(s1, "download") ELSE [s1 EXCEPT !.pc = "store"]
    [] s.pc = "store" ->
         LET s1 == [s EXCEPT !.calls = @ \o <<"AddBlob">>]
         IN IF ~ok THEN Returns(s1, "store")
            ELSE ToRelays([s1 EXCEPT !.fs = @ \cup {msg.MediaFileHash}], msg)

\* ------------------------------------------ bridge: handleWhappNotification
NoArg == <<"", "">>
\* One line handed to conn.irc.Write(time, str).
IrcLine(time, cmd, who, chan, arg) ==
  [k |-> "irc", time |-> time, cmd |-> cmd, who |-> who, chan |-> chan, arg |-> arg]

\* conn.irc.PrivateMessage(date, from, to, line).
PrivateMessage(time, from, to, line) ==
  IrcLine(time, "PRIVMSG", from, to, <<"text", line>>)

\* The findName closure: chat participants, then the registry's direct chat,
\* then the raw user ID.
findName(id, chat, chats) ==
  IF id \in chat.Participants THEN SafeName(id)
  ELSE LET info == ByID(chats, id)
       IN IF info.has /\ ~info.IsGroupChat THEN Identifier(id) ELSE User(id)

\* Line 220: an add/invite naming the local user writes nothing, the
\* auto-join of handleWhappMessage has written the JOIN.
SkipsJoinNever(recipientSelf) == FALSE
SkipsJoin(recipientSelf) == recipientSelf

\* Line 238: ":%s KICK %s %s" of author, chatItem.Identifier, recipient.
KickLine(msg, c, author, recipient) ==
  IrcLine(Time(msg), "KICK", author, Identifier(c), recipient)

\* The line the switch on msg.Subtype writes for one recipient: <<>> for none.
SubtypeLine(msg, c, author, recipient, recipientSelf) ==
  CASE msg.Subtype = "create" -> <<>>
    [] msg.Subtype \in {"add", "invite"} ->
         IF SkipsJoin(recipientSelf) THEN <<>>
         ELSE <<IrcLine(Time(msg), "JOIN", recipient, Identifier(c), NoArg)>>
    [] msg.Subtype = "leave" ->
         <<IrcLine(Time(msg), "PART", recipient, Identifier(c), NoArg)>>
    [] msg.Subtype = "remove" -> <<KickLine(msg, c, author, recipient)>>
    [] msg.Subtype = "miss" ->
         <<PrivateMessage(Time(msg), author, Identifier(c), "-- missed call --")>>
    [] OTHER -> <<>>
\* fmt.Sprintf (lines 226, 232, 238) or PrivateMessage (244) copies the
\* names into the line: a nick read without its pointer faults there.
Faults(line) == Nick(Bad) \in {line.who, line.arg}

\* Line 257: the local user left or was removed.
LeavesChatAnySubtype(subtype, recipientSelf) == recipientSelf
LeavesChatOnlyLeave(subtype, recipientSelf) == recipientSelf /\ subtype = "leave"
LeavesChat(subtype, recipientSelf) ==
  recipientSelf /\ (subtype = "leave" \/ subtype = "remove")

\* Lines 176-204: the type check, the empty recipient list, the author; n
\* is what Nick() returns at line 201.
handleWhappNotification(s, msg, n) ==
  IF msg.Type # "gp2" /\ msg.Type # "call_log" THEN Returns(s, "type")
  ELSE IF Len(msg.RecipientIDs) = 0 THEN Returns(s, "nil")
  ELSE
    LET from == IF msg.Sender # "nil" THEN msg.Sender ELSE msg.From
        author == IF from = SelfID THEN Nick(n)
                  ELSE findName(from, s.Chats[msg.Chat], s.Chats)
    IN [s EXCEPT !.pc = "recipient", !.author = author, !.i = 1]

\* Lines 257-260 for the recipient numbered s.i, and the loop's next turn
\* or the return of line 262.
NextRecipient(s, msg) ==
  LET recipientSelf == msg.RecipientIDs[s.i] = SelfID
      s1 == [s EXCEPT !.Chats = IF LeavesChat(msg.Subtype, recipientSelf)
                                THEN SetJoined(@, msg.Chat, FALSE) ELSE @,
                      !.i = @ + 1, !.line = <<>>]
  IN IF s1.i > Len(msg.RecipientIDs) THEN Returns(s1, "nil")
     ELSE [s1 EXCEPT !.pc = "recipient"]

\* Lines 207-226, 232, 238 or 244 for the recipient numbered s.i: its name
\* and the line of its subtype; n is what Nick() returns at line 210.
Recipient(s, msg, n) ==
  LET recipientID == msg.RecipientIDs[s.i]
      recipientSelf == recipientID = SelfID
      recipient == IF recipientSelf THEN Nick(n)
                   ELSE findName(recipientID, s.Chats[msg.Chat], s.Chats)
      line == SubtypeLine(msg, msg.Chat, s.author, recipient, recipientSelf)
  IN IF line = <<>> THEN NextRecipient(s, msg)
     ELSE IF Faults(line[1]) THEN Panics(s)
     ELSE [s EXCEPT !.pc = "write", !.line = line]

\* Lines 227-250: conn.irc.Write or PrivateMessage with the line; ok: it
\* returns no error.
Written(s, msg, ok) ==
  IF ~ok THEN Returns([s EXCEPT !.nw = @ + 1], "write")
  ELSE NextRecipient([s EXCEPT !.nw = @ + 1, !.out = @ \o s.line], msg)

\* ---------------------------------------------- bridge: handleWhappMessage
\* Lines 144-157: formatContact(*msg.Sender) dereferences the sender, nil
\* or not; then from and to; then the media. n is what Nick() returns at
\* line 147 or 154.
RelayMessage(s, msg, n) ==
  IF msg.Sender = "nil" THEN Panics(s)
  ELSE
    LET chat == s.Chats[msg.Chat]
        from == IF msg.IsSentByMe THEN Nick(n) ELSE SafeName(msg.Sender)
        to == IF chat.IsGroupChat \/ msg.IsSentByMe THEN Identifier(msg.Chat)
              ELSE Nick(n)
    IN ToMedia([s EXCEPT !.from = from, !.to = to], msg)

\* Line 133: no timestamp stored yet, or this one is strictly newer.
NewerOrEqual(lastTimestamp, msg) ==
  ~lastTimestamp.found \/ msg.Timestamp >= lastTimestamp.value
Newer(lastTimestamp, msg) ==
  ~lastTimestamp.found \/ msg.Timestamp > lastTimestamp.value

\* Lines 127-142: dedup, record, timestamp and persistence, then dispatch.
RecordAndDispatch(s, msg) ==
  LET c == msg.Chat IN
  IF HasMessageID(s.Chats[c], msg.ID) THEN Returns(s, "nil")
  ELSE
    LET lastTimestamp == TimestampGet(s.timestampMap, c)
        newer == Newer(lastTimestamp, msg)
        s3 == [s EXCEPT !.Chats = AddMessageID(@, c, msg.ID),
                        !.timestampMap = IF newer THEN TimestampSet(@, c, msg.Timestamp) ELSE @,
                        !.saved = newer]
    IN IF msg.IsSentByMeFromWeb THEN Returns(s3, "nil")
       ELSE IF msg.IsNotification THEN [s3 EXCEPT !.pc = "notify"]
       ELSE [s3 EXCEPT !.pc = "names"]

\* Lines 119-121: the auto-join of a group chat that is not joined.
JoinIfNeeded(s, msg) ==
  LET chat == s.Chats[msg.Chat] IN
  IF chat.IsGroupChat /\ ~chat.Joined THEN [s EXCEPT !.pc = "join"]
  ELSE [s EXCEPT !.pc = "record"]

\* Lines 122-125: joinChat has run; ok: it returns no error, n: the nick
\* it read.
Joins(s, msg, ok, n) ==
  LET j == joinChat(s.Chats, msg.Chat, ok, Nick(n)) IN
  IF j.err = "panic" THEN Panics(s)
  ELSE IF j.err # "nil" THEN Returns(s, j.err)
  ELSE [s EXCEPT !.Chats = j.Chats, !.out = @ \o j.out, !.pc = "record"]

\* Lines 113-118 with the chat registered before the fetch error is looked at.
RegistersFirst(s, msg, fetch) ==
  LET added == [s EXCEPT !.Chats = addChat(@, msg.Chat,
                                           convertChat(msg.Chat, fetch.participants))]
  IN IF fetch.err THEN Returns(added, "fetch") ELSE JoinIfNeeded(added, msg)
\* Lines 113-118: msg.Chat.Participants has answered fetch; on an error
\* return it, else register the chat.
Registers(s, msg, fetch) ==
  IF fetch.err THEN Returns(s, "fetch")
  ELSE JoinIfNeeded([s EXCEPT !.Chats = addChat(@, msg.Chat,
                                                convertChat(msg.Chat, fetch.participants))],
                    msg)

\* Lines 107-112: the e2e_notification hack and the registry lookup.
Enters(s, msg) ==
  IF msg.Type = "e2e_notification" THEN Returns(s, "nil")
  ELSE IF ~ByID(s.Chats, msg.Chat).has THEN [s EXCEPT !.pc = "fetch"]
  ELSE JoinIfNeeded(s, msg)

\* The handler from s.pc to its next position. a holds what the world
\* answers there: fetch (the participants or an error), ok (the call
\* returns no error), n (what Nick() returns).
Step(s, msg, a) ==
  CASE s.pc = "entry" -> Enters(s, msg)
    [] s.pc = "fetch" -> Registers(s, msg, a.fetch)
    [] s.pc = "join" -> Joins(s, msg, a.ok, a.n)
    [] s.pc = "record" -> RecordAndDispatch(s, msg)
    [] s.pc = "names" -> RelayMessage(s, msg, a.n)
    [] s.pc \in {"lookup", "download", "store"} -> downloadAndStoreMedia(s, msg, a.ok)
    [] s.pc = "body" -> BodyStep(s, msg)
    [] s.pc = "relay" -> RelayStep(s, msg, a.ok)
    [] s.pc = "notify" -> handleWhappNotification(s, msg, a.n)
    [] s.pc = "recipient" -> Recipient(s, msg, a.n)
    [] s.pc = "write" -> Written(s, msg, a.ok)

\* A run's record on entry, over the state (chats, tm, store): nothing
\* returned, written, called or persisted yet.
EntryOn(chats, tm, store) ==
  [pc |-> "entry", ret |-> "nil", out |-> <<>>, calls |-> <<>>, saved |-> FALSE,
   from |-> NoName, to |-> NoName, author |-> NoName, i |-> 0, nw |-> 0,
   line |-> <<>>, plan |-> <<>>, body |-> NoBody,
   Chats |-> chats, timestampMap |-> tm, fs |-> store]

\* The whole handler when nothing else runs meanwhile. env: what the
\* collaborators answer when asked: fetch, join, dl, add, fnq, fnp (the
\* quoted and the primary relay), wfail (the write that fails, 0 for
\* none) and reads (what Nick() returns at each place).
AnswerAt(s, env) ==
  [fetch |-> env.fetch,
   ok |-> CASE s.pc = "join" -> env.join
            [] s.pc = "download" -> env.dl
            [] s.pc = "store" -> env.add
            [] s.pc = "relay" -> IF Head(s.plan) THEN env.fnq ELSE env.fnp
            [] s.pc = "write" -> s.nw + 1 # env.wfail
            [] OTHER -> TRUE,
   n |-> CASE s.pc = "join" -> env.reads[JoinRead]
           [] s.pc \in {"names", "notify"} -> env.reads[FirstRead]
           [] s.pc = "recipient" -> env.reads[SecondRead]
           [] OTHER -> ""]
RECURSIVE Run(_, _, _)
Run(s, msg, env) ==
  IF s.pc \in Ends THEN s ELSE Run(Step(s, msg, AnswerAt(s, env)), msg, env)
handleWhappMessage(s, msg, env) == Run([s EXCEPT !.pc = "entry"], msg, env)

\* ------------------------------------------------------ session: values
\* An irc.Message as Decode returns it: the command in upper case, the
\* parameters, and for an application command its arrival number.
Line(cmd, params) == [Command |-> cmd, Params |-> params, seq |-> 0]
AppLine(n) == [Command |-> "PRIVMSG", Params |-> <<"#chan", "hi">>, seq |-> n]
\* A raw line ParseMessage rejects: Decode returns nil for it.
InvalidLine == Line("", <<>>)

HousekeepingLines ==
  { Line("PING", <<"t1">>), Line("PING", <<"t2">>), Line("PING", <<>>),
    Line("QUIT", <<>>),
    Line("NICK", <<"alice">>), Line("NICK", <<>>),
    Line("PASS", <<"secret">>), Line("PASS", <<>>),
    Line("CAP", <<"LS">>), Line("CAP", <<"LIST">>), Line("CAP", <<"END">>),
    Line("CAP", <<"REQ", "server-time">>),
    Line("CAP", <<"REQ", "whapp-irc/replay server-time">>),
    Line("CAP", <<"REQ">>), Line("CAP", <<>>),
    InvalidLine }

\* irc.Message.Trailing(): the last parameter, "" when there is none.
Trailing(msg) == IF Len(msg.Params) > 0 THEN msg.Params[Len(msg.Params)] ELSE ""

\* strings.Split(s, " ") on the parameters the peer sends here.
Split(str) ==
  IF str = "whapp-irc/replay server-time" THEN {"whapp-irc/replay", "server-time"}
  ELSE {str}

\* capabilities.Map: Has, and List in its stable order.
Has(capset, c) == c \in capset
CapOrder == <<"REQ", "server-time", "whapp-irc/replay">>
List(capset) == SelectSeq(CapOrder, LAMBDA c : c \in capset)

\* time.Time values in microseconds; Times: what time.Now() and the callers
\* of Write pass.
Times == {1700}
\* time.UTC().Format("2006-01-02T15:04:05.000Z"): UTC, cut to milliseconds.
TimeFormat(t) == <<"UTC", t \div 1000>>
NoTag == <<"", 0>>

\* A line of output before tagging: the words before the trailing
\* parameter, the trailing parameter, and for a CAP reply the capability
\* names joined into it.
Text(head, token, caplist) == [head |-> head, token |-> token, caps |-> caplist]
\* Line 83: ":whapp-irc PONG whapp-irc :" + msg.Params[0].
PongFixedToken(msg) == Text(<<":whapp-irc", "PONG", "whapp-irc">>, "whapp-irc", <<>>)
PongText(msg) == Text(<<":whapp-irc", "PONG", "whapp-irc">>, msg.Params[1], <<>>)
\* Lines 106, 110, 116: ":whapp-irc CAP * <sub> :" and the list.
CapText(sub, token, caplist) == Text(<<":whapp-irc", "CAP", "*", sub>>, token, caplist)

\* ------------------------------------------------------- session: Write
\* Write, lines 138-142: the @time= prefix iff server-time is negotiated.
WriteUntagged(time, msg, capset) == [tag |-> NoTag, msg |-> msg]
Write(time, msg, capset) ==
  IF Has(capset, "server-time") THEN [tag |-> TimeFormat(time), msg |-> msg]
  ELSE [tag |-> NoTag, msg |-> msg]

\* write, lines 132-135: the calls of the socket's Write made for one line,
\* each serialized by the socket; one call carries the line and its "\n".
writeInTwoCalls(m) ==
  << [tag |-> m.tag, msg |-> m.msg, nl |-> FALSE],
     [tag |-> NoTag, msg |-> Text(<<>>, "", <<>>), nl |-> TRUE] >>
write(m) == << [tag |-> m.tag, msg |-> m.msg, nl |-> TRUE] >>

\* The socket refuses writes once it is closed here or reset by the peer.
SocketBroken == sockClosed \/ peer = "reset"

\* One entry of sock: the chunk, who wrote it, and whether server-time was
\* negotiated when its Write was called.
SockEntry(w, chunk, had) ==
  [by |-> w, tag |-> chunk.tag, msg |-> chunk.msg, nl |-> chunk.nl, had |-> had]

\* passOnce.Do(f), line 100: f runs on the first call only.
OnceRunsAlways(done) == TRUE
OnceRuns(done) == ~done

\* The deferred calls of the reader goroutine in the order they run
\* (lines 64-65, last deferred first).
DeferredCloseOnly == <<"close">>
DeferredCalls == <<"cancel", "close">>
DeferPc == <<"defer1", "defer2">>

\* ----------------------------------------------------- session: machine
\* A panic in the reader goroutine runs its deferred calls (lines 64-65)
\* while the other goroutines go on, then ends the process: nothing runs
\* after that.
Alive == rpc # "panic"
\* The reader is at conn.irc.Decode() and a line is there to decode: a
\* line that arrived is decoded also after the socket is closed or reset,
\* when the decoder had it buffered.
CanRead == rpc = "decode" /\ inbuf # <<>>
\* One Write call's socket writes, as the writer's work list.
Calls(chunks) == chunks

\* The sessions explored. flood: a peer that sends application commands
\* only, more than the inbound queue holds. login: PASS, QUIT and
\* malformed lines among application commands. listener: NICK lines among application
\* commands, with an application that calls NickSetChannel(). keepalive:
\* PING lines among application commands. caps: capability negotiation.
\* writers: other goroutines write while the peer pings and requests
\* server-time.
NoLines == {}
Profile ==
  [flood |-> [lines |-> NoLines, app |-> queueSize + MaxOverflow, writers |-> FALSE, listens |-> FALSE],
   login |-> [lines |-> {l \in HousekeepingLines : l.Command \in {"", "PASS", "QUIT"}},
              app |-> MaxApp, writers |-> FALSE, listens |-> FALSE],
   listener |-> [lines |-> {l \in HousekeepingLines : l.Command = "NICK"},
                 app |-> MaxApp, writers |-> FALSE, listens |-> TRUE],
   keepalive |-> [lines |-> {l \in HousekeepingLines : l.Command = "PING"},
                  app |-> MaxApp, writers |-> FALSE, listens |-> FALSE],
   caps |-> [lines |-> {l \in HousekeepingLines : l.Command = "CAP"},
             app |-> 0, writers |-> FALSE, listens |-> FALSE],
   writers |-> [lines |-> {Line("PING", <<"t1">>), Line("CAP", <<"REQ", "server-time">>)},
                app |-> 0, writers |-> TRUE, listens |-> FALSE]]
Profiles == {"flood", "login", "listener", "keepalive", "caps", "writers"}
NoLine == InvalidLine

Writers == {"translator", "lister"}
\* What each of them writes: one line, and a WriteListNow of two.
WriterLines ==
  [w \in Writers |->
     IF w = "translator" THEN <<Text(<<"PRIVMSG", "#chan">>, "hello", <<>>)>>
     ELSE <<Text(<<"NOTICE", "nick">>, "one", <<>>), Text(<<"NOTICE", "nick">>, "two", <<>>)>>]

InitSession ==
  /\ profile \in Profiles
  /\ sent = [app |-> 0, hk |-> 0]
  /\ inbuf = <<>>
  /\ peer = "up"
  /\ rpc = "decode"
  /\ cur = NoLine
  /\ rq = <<>>
  /\ stopCause = ""
  /\ caps = {}
  /\ negotiating = FALSE
  /\ nick = ""
  /\ pass = ""
  /\ passCh = "open"
  /\ passOnce = FALSE
  /\ passStats = [lines |-> 0, closes |-> 0]
  /\ nickSub = [reg |-> 0, taking |-> 0]
  /\ receiveCh = <<>>
  /\ chClosed = FALSE
  /\ ctxDone = FALSE
  /\ extCancel = FALSE
  /\ sockClosed = FALSE
  /\ watcher = "waiting"
  /\ sock = <<>>
  /\ received = <<>>
  /\ writers = [w \in Writers |->
                  [pc |-> IF Profile[profile].writers THEN "check" ELSE "off",
                   todo |-> WriterLines[w], q |-> <<>>, had |-> FALSE]]

\* The peer sends one more line: an application command (numbered in
\* arrival order), or a housekeeping or malformed line of its profile.
Send(line) ==
  /\ Alive /\ peer = "up"
  /\ \/ /\ line.Command = "PRIVMSG"
        /\ line.seq = sent.app + 1
        /\ sent.app < Profile[profile].app
        /\ sent' = [sent EXCEPT !.app = @ + 1]
     \/ /\ line \in Profile[profile].lines
        /\ sent.hk < MaxHousekeeping
        /\ sent' = [sent EXCEPT !.hk = @ + 1]
  /\ inbuf' = Append(inbuf, line)
  /\ UNCHANGED <<bridgeVars, profile, peer, rpc, cur, rq, stopCause, caps,
               negotiating, nick, pass, passCh, passOnce, passStats, nickSub,
               receiveCh, chClosed, ctxDone, extCancel, sockClosed, watcher,
               sock, received, writers>>

\* The peer closes its side after the lines it sent: the reader meets
\* io.EOF once it has decoded them.
PeerCloses ==
  /\ Alive /\ peer = "up"
  /\ peer' = "eof"
  /\ UNCHANGED <<bridgeVars, profile, sent, inbuf, rpc, cur, rq, stopCause,
               caps, negotiating, nick, pass, passCh, passOnce, passStats,
               nickSub, receiveCh, chClosed, ctxDone, extCancel, sockClosed,
               watcher, sock, received, writers>>

\* The connection breaks: reads and writes fail from here on, and what
\* the decoder has not buffered is lost.
PeerResets ==
  /\ Alive /\ peer = "up"
  /\ peer' = "reset"
  /\ UNCHANGED <<bridgeVars, profile, sent, inbuf, rpc, cur, rq, stopCause, caps,
               negotiating, nick, pass, passCh, passOnce, passStats, nickSub,
               receiveCh, chClosed, ctxDone, extCancel, sockClosed, watcher,
               sock, received, writers>>

\* Lines 70-75: conn.irc.Decode() returns a socket error.
DecodeError ==
  /\ rpc = "decode" /\ SocketBroken
  /\ rpc' = DeferPc[1]
  /\ stopCause' = "error"
  /\ UNCHANGED <<bridgeVars, profile, sent, inbuf, peer, cur, rq, caps,
               negotiating, nick, pass, passCh, passOnce, passStats, nickSub,
               receiveCh, chClosed, ctxDone, extCancel, sockClosed, watcher,
               sock, received, writers>>

\* Lines 70-72: conn.irc.Decode() returns io.EOF.
DecodeEOF ==
  /\ rpc = "decode" /\ ~SocketBroken
  /\ inbuf = <<>> /\ peer = "eof"
  /\ rpc' = DeferPc[1]
  /\ stopCause' = "EOF"
  /\ UNCHANGED <<bridgeVars, profile, sent, inbuf, peer, cur, rq, caps,
               negotiating, nick, pass, passCh, passOnce, passStats, nickSub,
               receiveCh, chClosed, ctxDone, extCancel, sockClosed, watcher,
               sock, received, writers>>

\* Lines 76-79: Decode returns nil for a line it cannot parse.
DecodeInvalid ==
  /\ CanRead /\ Head(inbuf) = InvalidLine
  /\ inbuf' = Tail(inbuf)
  /\ UNCHANGED <<bridgeVars, profile, sent, peer, rpc, cur, rq, stopCause,
               caps, negotiating, nick, pass, passCh, passOnce, passStats,
               nickSub, receiveCh, chClosed, ctxDone, extCancel, sockClosed,
               watcher, sock, received, writers>>

\* Lines 82-87: PING. msg.Params[0] of a PING without parameters is out
\* of range: the goroutine panics.
HandlePing ==
  /\ CanRead /\ Head(inbuf).Command = "PING"
  /\ inbuf' = Tail(inbuf)
  /\ cur' = Head(inbuf)
  /\ IF Len(Head(inbuf).Params) = 0
     THEN rpc' = DeferPc[1] /\ stopCause' = "panic" /\ UNCHANGED rq
     ELSE \E now \in Times :
            /\ rq' = Calls(write(Write(now, PongText(Head(inbuf)), caps)))
            /\ rpc' = "write" /\ UNCHANGED stopCause
  /\ UNCHANGED <<bridgeVars, profile, sent, peer, caps,
               negotiating, nick, pass, passCh, passOnce, passStats, nickSub,
               receiveCh, chClosed, ctxDone, extCancel, sockClosed, watcher,
               sock, received, writers>>

\* Lines 88-90: QUIT ends the loop.
HandleQuit ==
  /\ CanRead /\ Head(inbuf).Command = "QUIT"
  /\ inbuf' = Tail(inbuf)
  /\ rpc' = DeferPc[1]
  /\ stopCause' = "QUIT"
  /\ UNCHANGED <<bridgeVars, profile, sent, peer, cur, rq, caps, negotiating,
               nick, pass, passCh, passOnce, passStats, nickSub, receiveCh,
               chClosed, ctxDone, extCancel, sockClosed, watcher, sock,
               received, writers>>

\* Lines 92-93 and setNick: the nick is set, then the reader waits until
\* the emitter has handed the event to its listener, if there is one.
HandleNick ==
  /\ CanRead /\ Head(inbuf).Command = "NICK"
  /\ inbuf' = Tail(inbuf)
  /\ IF Len(Head(inbuf).Params) = 0
     THEN /\ rpc' = DeferPc[1] /\ stopCause' = "panic" /\ cur' = Head(inbuf)
          /\ UNCHANGED <<nick, nickSub>>
     ELSE /\ nick' = Head(inbuf).Params[1]
          /\ UNCHANGED stopCause
          /\ IF nickSub.reg > 0
             THEN /\ rpc' = "emit" /\ cur' = Head(inbuf)
                  /\ nickSub' = [reg |-> 0, taking |-> nickSub.reg]
             ELSE UNCHANGED <<rpc, cur, nickSub>>
  /\ UNCHANGED <<bridgeVars, profile, sent, peer, rq, caps,
               negotiating, pass, passCh, passOnce, passStats,
               receiveCh, chClosed, ctxDone, extCancel, sockClosed, watcher,
               sock, received, writers>>

\* Lines 207-210: the application calls NickSetChannel(), which registers
\* a Once listener for the next nick event.
NickSetChannel ==
  /\ Alive /\ Profile[profile].listens
  /\ nickSub.reg < MaxListeners
  /\ nickSub' = [nickSub EXCEPT !.reg = @ + 1]
  /\ UNCHANGED <<bridgeVars, profile, sent, inbuf, peer, rpc, cur, rq,
               stopCause, caps, negotiating, nick, pass, passCh, passOnce,
               passStats, receiveCh, chClosed, ctxDone, extCancel, sockClosed,
               watcher, sock, received, writers>>

\* A listener of NickSetChannel() takes the event; when the last one has,
\* Emit's channel closes and setNick returns (line 186).
NickReceived ==
  /\ rpc = "emit" /\ nickSub.taking > 0
  /\ nickSub' = [nickSub EXCEPT !.taking = @ - 1]
  /\ IF nickSub.taking = 1
     THEN cur' = NoLine /\ rpc' = "decode"
     ELSE UNCHANGED <<cur, rpc>>
  /\ UNCHANGED <<bridgeVars, profile, sent, inbuf, peer, rq, stopCause, caps,
               negotiating, nick, pass, passCh, passOnce, passStats,
               receiveCh, chClosed, ctxDone, extCancel, sockClosed, watcher,
               sock, received, writers>>

\* Lines 95-100: PASS records the password and closes passCh through
\* passOnce; closing a closed channel panics.
HandlePass ==
  /\ CanRead /\ Head(inbuf).Command = "PASS"
  /\ inbuf' = Tail(inbuf)
  /\ pass' = IF Len(Head(inbuf).Params) > 0 THEN Head(inbuf).Params[1] ELSE ""
  /\ passOnce' = TRUE
  /\ IF OnceRuns(passOnce)
     THEN /\ passStats' = [lines |-> passStats.lines + 1, closes |-> passStats.closes + 1]
          /\ IF passCh = "closed"
             THEN /\ rpc' = DeferPc[1] /\ stopCause' = "panic"
                  /\ cur' = Head(inbuf) /\ UNCHANGED passCh
             ELSE passCh' = "closed" /\ UNCHANGED <<rpc, cur, stopCause>>
     ELSE /\ passStats' = [passStats EXCEPT !.lines = @ + 1]
          /\ UNCHANGED <<passCh, rpc, cur, stopCause>>
  /\ UNCHANGED <<bridgeVars, profile, sent, peer, rq, caps,
               negotiating, nick, nickSub, receiveCh, chClosed, ctxDone,
               extCancel, sockClosed, watcher, sock, received, writers>>

\* Lines 102-121: CAP starts the negotiation, then acts on msg.Params[0]
\* (out of range for a CAP without parameters). The replies' write errors
\* are not looked at.
HandleCap ==
  /\ CanRead /\ Head(inbuf).Command = "CAP"
  /\ inbuf' = Tail(inbuf)
  /\ LET msg == Head(inbuf)
         sub == IF Len(msg.Params) > 0 THEN msg.Params[1] ELSE ""
         added == IF sub = "REQ" THEN caps \cup Split(Trailing(msg)) ELSE caps
         reply == CASE sub = "LS" -> CapText("LS", "server-time whapp-irc/replay", <<>>)
                    [] sub = "LIST" -> CapText("LIST", "", List(caps))
                    [] OTHER -> CapText("ACK", "", List(added))
     IN IF Len(msg.Params) = 0
        THEN /\ negotiating' = TRUE
             /\ rpc' = DeferPc[1] /\ stopCause' = "panic" /\ cur' = Head(inbuf)
             /\ UNCHANGED <<caps, rq>>
        ELSE /\ negotiating' = (sub # "END")
             /\ UNCHANGED stopCause
             /\ caps' = added
             /\ IF sub \in {"LS", "LIST", "REQ"}
                THEN \E now \in Times :
                       /\ rq' = Calls(write(Write(now, reply, added)))
                       /\ rpc' = "write" /\ cur' = Head(inbuf)
                ELSE UNCHANGED <<rq, rpc, cur>>
  /\ UNCHANGED <<bridgeVars, profile, sent, peer, nick, pass,
               passCh, passOnce, passStats, nickSub, receiveCh, chClosed,
               ctxDone, extCancel, sockClosed, watcher, sock, received,
               writers>>

\* Lines 123-124: any other command goes to the inbound queue.
HandleOther ==
  /\ CanRead
  /\ Head(inbuf).Command \notin {"", "PING", "QUIT", "NICK", "PASS", "CAP"}
  /\ inbuf' = Tail(inbuf)
  /\ cur' = Head(inbuf)
  /\ rpc' = "send"
  /\ UNCHANGED <<bridgeVars, profile, sent, peer, rq, stopCause, caps,
               negotiating, nick, pass, passCh, passOnce, passStats, nickSub,
               receiveCh, chClosed, ctxDone, extCancel, sockClosed, watcher,
               sock, received, writers>>

\* make(chan *irc.Message, queueSize), line 44: a send goes through while
\* the buffer holds fewer than queueSize messages.
HasRoomAlways(ch) == TRUE
HasRoom(ch) == Len(ch) < queueSize

\* Line 124: conn.receiveCh <- msg, which waits while the buffer is full.
Enqueue ==
  /\ rpc = "send" /\ HasRoom(receiveCh)
  /\ receiveCh' = Append(receiveCh, cur)
  /\ cur' = NoLine
  /\ rpc' = "decode"
  /\ UNCHANGED <<bridgeVars, profile, sent, inbuf, peer, rq, stopCause, caps,
               negotiating, nick, pass, passCh, passOnce, passStats, nickSub,
               chClosed, ctxDone, extCancel, sockClosed, watcher, sock,
               received, writers>>

\* One socket write of the reader's reply. A PONG that cannot be written
\* ends the loop (lines 84-87); a CAP reply's error is dropped.
ReaderWrite ==
  /\ rpc = "write"
  /\ cur' = IF SocketBroken \/ Tail(rq) = <<>> THEN NoLine ELSE cur
  /\ IF SocketBroken
     THEN /\ rq' = <<>>
          /\ IF cur.Command = "PING"
             THEN rpc' = DeferPc[1] /\ stopCause' = "write error"
             ELSE rpc' = "decode" /\ UNCHANGED stopCause
          /\ UNCHANGED sock
     ELSE /\ sock' = Append(sock, SockEntry("reader", Head(rq), Has(caps, "server-time")))
          /\ rq' = Tail(rq)
          /\ rpc' = IF Tail(rq) = <<>> THEN "decode" ELSE "write"
          /\ UNCHANGED stopCause
  /\ UNCHANGED <<bridgeVars, profile, sent, inbuf, peer, caps, negotiating,
               nick, pass, passCh, passOnce, passStats, nickSub, receiveCh,
               chClosed, ctxDone, extCancel, sockClosed, watcher, received,
               writers>>

\* Lines 64-65: the deferred cancel() and close(conn.receiveCh).
RunDeferred(i) ==
  /\ rpc = DeferPc[i]
  /\ IF i > Len(DeferredCalls) THEN UNCHANGED <<ctxDone, chClosed>>
     ELSE IF DeferredCalls[i] = "cancel"
     THEN ctxDone' = TRUE /\ UNCHANGED chClosed
     ELSE chClosed' = TRUE /\ UNCHANGED ctxDone
  /\ rpc' = IF i < Len(DeferredCalls) THEN DeferPc[i + 1]
            ELSE IF stopCause = "panic" THEN "panic" ELSE "done"
  /\ UNCHANGED <<bridgeVars, profile, sent, inbuf, peer, cur, rq, stopCause,
               caps, negotiating, nick, pass, passCh, passOnce, passStats,
               nickSub, receiveCh, extCancel, sockClosed, watcher, sock,
               received, writers>>

\* Lines 55-58: the watcher goroutine closes the socket once the context
\* is done.
Watcher ==
  /\ Alive /\ watcher = "waiting" /\ ctxDone
  /\ sockClosed' = TRUE
  /\ watcher' = "done"
  /\ UNCHANGED <<bridgeVars, profile, sent, inbuf, peer, rpc, cur, rq,
               stopCause, caps, negotiating, nick, pass, passCh, passOnce,
               passStats, nickSub, receiveCh, chClosed, ctxDone, extCancel,
               sock, received, writers>>

\* The owner of the context handed to HandleConnection cancels it.
ExternalCancel ==
  /\ Alive /\ ~ctxDone
  /\ ctxDone' = TRUE
  /\ extCancel' = TRUE
  /\ UNCHANGED <<bridgeVars, profile, sent, inbuf, peer, rpc, cur, rq,
               stopCause, caps, negotiating, nick, pass, passCh, passOnce,
               passStats, nickSub, receiveCh, chClosed, sockClosed, watcher,
               sock, received, writers>>

\* The consumer takes the next message from ReceiveChannel(); a closed
\* channel still hands out what it holds.
Receive ==
  /\ Alive /\ receiveCh # <<>>
  /\ received' = Append(received, Head(receiveCh))
  /\ receiveCh' = Tail(receiveCh)
  /\ UNCHANGED <<bridgeVars, profile, sent, inbuf, peer, rpc, cur, rq,
               stopCause, caps, negotiating, nick, pass, passCh, passOnce,
               passStats, nickSub, chClosed, ctxDone, extCancel, sockClosed,
               watcher, sock, writers>>

\* Another goroutine calls Write (the event translator's Write and
\* PrivateMessage, each WriteNow of a WriteListNow): the capability check
\* and the prefix, lines 139-142.
WriterCheck(w) ==
  /\ Alive /\ writers[w].pc = "check"
  /\ \E time \in Times :
       writers' = [writers EXCEPT
         ![w].pc = "write",
         ![w].had = Has(caps, "server-time"),
         ![w].q = Calls(write(Write(time, Head(writers[w].todo), caps)))]
  /\ UNCHANGED <<bridgeVars, profile, sent, inbuf, peer, rpc, cur, rq,
               stopCause, caps, negotiating, nick, pass, passCh, passOnce,
               passStats, nickSub, receiveCh, chClosed, ctxDone, extCancel,
               sockClosed, watcher, sock, received>>

\* One socket write of that call, line 144. An error ends the call, and
\* a WriteListNow with it (lines 161-163).
WriterWrite(w) ==
  /\ Alive /\ writers[w].pc = "write"
  /\ IF SocketBroken
     THEN /\ writers' = [writers EXCEPT ![w].pc = "failed", ![w].q = <<>>]
          /\ UNCHANGED sock
     ELSE /\ sock' = Append(sock, SockEntry(w, Head(writers[w].q), writers[w].had))
          /\ writers' = [writers EXCEPT
               ![w].q = Tail(@),
               ![w].todo = IF Tail(writers[w].q) = <<>> THEN Tail(@) ELSE @,
               ![w].pc = IF Tail(writers[w].q) # <<>> THEN "write"
                         ELSE IF Tail(writers[w].todo) = <<>> THEN "done"
                         ELSE "check"]
  /\ UNCHANGED <<bridgeVars, profile, sent, inbuf, peer, rpc, cur, rq,
               stopCause, caps, negotiating, nick, pass, passCh, passOnce,
               passStats, nickSub, receiveCh, chClosed, ctxDone, extCancel,
               sockClosed, watcher, received>>

\* ------------------------------------------------------ bridge: the machine
NoMessage == MkMsg(0, GroupID, 0, "none", "", FALSE, FALSE, FALSE, "nil", "nil",
                   <<>>, TextContent, <<>>)

\* What goes on around the handler in a run. steady: nothing else; retry:
\* nothing else, and an event that failed late is followed; renick: the IRC
\* user changes nick; shared: another connection handles media of the same
\* hash on the shared blob store; persist: the persistence goroutines the
\* handler starts are followed.
Scenes == {"steady", "retry", "renick", "shared", "persist"}
\* The events the upstream client delivers in each: all of them; all with
\* one timestamp; those with one timestamp that name the local user or
\* come on the direct chat; the messages that are no notification.
NamesSelf(msg) ==
  \/ msg.IsSentByMe \/ msg.Sender = SelfID \/ msg.From = SelfID
  \/ msg.Chat = DirectID
  \/ \E i \in 1..Len(msg.RecipientIDs) : msg.RecipientIDs[i] = SelfID
SceneMessages ==
  [steady |-> Messages,
   retry |-> {m \in Messages : m.Timestamp = 1},
   renick |-> {m \in Messages : NamesSelf(m) /\ m.Timestamp = 1},
   shared |-> PlainMessages,
   persist |-> PlainMessages]

\* The errors returned after line 130 has recorded the message: of the
\* media, quote and body steps, of the notification type check, and of a
\* notification's write.
LateErrors == {"download", "store", "fn", "type", "write"}
\* Those of them that come from the media, quote and body steps or from
\* the notification type check.
ListedErrors == {"download", "store", "fn", "type"}

\* No handler runs: the listener waits for the next event.
Idle ==
  [pc |-> "idle", msg |-> NoMessage, ret |-> "nil", out |-> <<>>, calls |-> <<>>,
   saved |-> FALSE, from |-> NoName, to |-> NoName, author |-> NoName,
   i |-> 0, nw |-> 0, line |-> <<>>, plan |-> <<>>, body |-> NoBody,
   seen |-> FALSE, joined |-> FALSE, stored |-> NoTimestamp, nickIn |-> ""]

InitBridge ==
  /\ Chats = [c \in ChatIDs |-> NoChat]
  /\ timestampMap = [c \in ChatIDs |-> NoTimestamp]
  /\ fs = {}
  /\ other = "idle"
  /\ saves = 0
  /\ db = [c \in ChatIDs |-> NoTimestamp]
  /\ nickWrite = NoWrite
  /\ scene \in Scenes
  /\ last = Idle
  /\ failed = {}

\* The run in last over the state as it is now.
Cur ==
  [pc |-> last.pc, ret |-> last.ret, out |-> last.out, calls |-> last.calls,
   saved |-> last.saved, from |-> last.from, to |-> last.to,
   author |-> last.author, i |-> last.i, nw |-> last.nw, line |-> last.line,
   plan |-> last.plan, body |-> last.body,
   Chats |-> Chats, timestampMap |-> timestampMap, fs |-> fs]

\* The process has ended in a panic: no goroutine runs any more.
Crashed == last.pc = "panic"

\* The handler moves from the run l to r: its state and its position. The
\* step that sets the timestamp starts the persistence goroutine (line
\* 135); failed follows one event, any one, that returned an error after
\* it was recorded.
Advance(l, r) ==
  /\ Chats' = r.Chats
  /\ timestampMap' = r.timestampMap
  /\ fs' = r.fs
  /\ last' = [l EXCEPT !.pc = r.pc, !.ret = r.ret, !.out = r.out,
                       !.calls = r.calls, !.saved = r.saved, !.from = r.from,
                       !.to = r.to, !.author = r.author, !.i = r.i,
                       !.nw = r.nw, !.line = r.line, !.plan = r.plan,
                       !.body = r.body]
  /\ saves' = IF r.saved /\ ~l.saved /\ scene = "persist" /\ saves < MaxSaves
              THEN saves + 1 ELSE saves
  /\ \/ failed' = failed
     \/ /\ scene = "retry" /\ failed = {}
        /\ r.pc = "returned" /\ r.ret \in LateErrors
        /\ failed' = {[chat |-> l.msg.Chat, id |-> l.msg.ID,
                       listed |-> r.ret \in ListedErrors]}
  /\ UNCHANGED <<other, db, nickWrite, scene>>
  /\ UNCHANGED ircVars

\* The upstream client delivers msg: the handler starts (lines 107-112, and
\* on a known chat 119-121). last
\* keeps the event and facts of the state it found: whether msg.ID was
\* recorded, whether the chat was joined, the timestamp stored for the
\* chat, the nick field.
Deliver(msg) ==
  /\ last = Idle
  /\ Advance([Idle EXCEPT !.msg = msg,
                          !.seen = HasMessageID(ByID(Chats, msg.Chat), msg.ID),
                          !.joined = ByID(Chats, msg.Chat).Joined,
                          !.stored = timestampMap[msg.Chat],
                          !.nickIn = nick],
             Enters(EntryOn(Chats, timestampMap, fs), msg))

HandleEvent == \E msg \in SceneMessages[scene] : Deliver(msg)

\* msg.Chat.Participants returns (line 113).
FetchDone ==
  /\ last.pc = "fetch"
  /\ \E fetch \in FetchOutcomes(last.msg.Chat) :
       Advance(last, Registers(Cur, last.msg, fetch))

\* conn.joinChat returns (line 122).
JoinDone ==
  /\ last.pc = "join"
  /\ \E ok \in BOOLEAN, n \in NickRead(nick, nickWrite) :
       Advance(last, Joins(Cur, last.msg, ok, n))

\* Lines 127-142: the handler records the message and its timestamp.
RecordStep ==
  /\ last.pc = "record"
  /\ Advance(last, RecordAndDispatch(Cur, last.msg))

\* Lines 144-157.
ResolveNames ==
  /\ last.pc = "names"
  /\ \E n \in NickRead(nick, nickWrite) :
       Advance(last, RelayMessage(Cur, last.msg, n))

\* fs.GetFileByHash answers (line 79), msg.DownloadMedia returns (80) or
\* fs.AddBlob returns (93).
MediaStep ==
  /\ last.pc \in {"lookup", "download", "store"}
  /\ \E ok \in BOOLEAN :
       Advance(last, downloadAndStoreMedia(Cur, last.msg, ok))

\* getMessageBody reads the blob store (line 162 or 169, through line 59).
ReadBody ==
  /\ last.pc = "body"
  /\ Advance(last, BodyStep(Cur, last.msg))

\* fn returns (line 164 or 170).
RelayDone ==
  /\ last.pc = "relay"
  /\ \E ok \in BOOLEAN : Advance(last, RelayStep(Cur, last.msg, ok))

\* Lines 176-204.
NotificationStart ==
  /\ last.pc = "notify"
  /\ \E n \in NickRead(nick, nickWrite) :
       Advance(last, handleWhappNotification(Cur, last.msg, n))

\* Lines 207-226 (232, 238, 244) for the next recipient.
RecipientStep ==
  /\ last.pc = "recipient"
  /\ \E n \in NickRead(nick, nickWrite) :
       Advance(last, Recipient(Cur, last.msg, n))

\* conn.irc.Write or PrivateMessage returns (lines 227-250).
WriteDone ==
  /\ last.pc = "write"
  /\ \E ok \in BOOLEAN : Advance(last, Written(Cur, last.msg, ok))

Handler ==
  \/ HandleEvent \/ FetchDone \/ JoinDone \/ RecordStep \/ ResolveNames \/ MediaStep
  \/ ReadBody \/ RelayDone \/ NotificationStart \/ RecipientStep \/ WriteDone

\* The listener takes the handler's result (logs the error) and waits for
\* the next event.
Return ==
  /\ last.pc = "returned"
  /\ last' = Idle
  /\ UNCHANGED <<Chats, timestampMap, fs, other, saves, db, nickWrite, scene, failed>>
  /\ UNCHANGED ircVars

\* setNick, ircconnection.go line 185: the session's reader has a NICK
\* line and starts to store the nick,
SetNickBegins(n) ==
  /\ scene = "renick" /\ ~Crashed
  /\ nickWrite = NoWrite /\ n \in NextNicks(nick)
  /\ nickWrite' = n
  /\ UNCHANGED <<Chats, timestampMap, fs, other, saves, db, scene, last, failed>>
  /\ UNCHANGED ircVars
\* and has stored it.
SetNickEnds ==
  /\ ~Crashed /\ nickWrite # NoWrite
  /\ nick' = nickWrite
  /\ nickWrite' = NoWrite
  /\ UNCHANGED <<Chats, timestampMap, fs, other, saves, db, scene, last, failed>>
  /\ UNCHANGED ircRest

\* Another connection's downloadAndStoreMedia on the same hash: its lookup
\* (line 79) misses,
OtherLooksUp ==
  /\ scene = "shared" /\ ~Crashed
  /\ other = "idle" /\ ~GetFileByHash(fs, MediaHash)
  /\ other' = "missed"
  /\ UNCHANGED <<Chats, timestampMap, fs, saves, db, nickWrite, scene, last, failed>>
  /\ UNCHANGED ircVars
\* and later it stores the blob (line 93), or gives up on an error.
OtherStores(ok) ==
  /\ ~Crashed /\ other = "missed"
  /\ other' = "idle"
  /\ fs' = IF ok THEN fs \cup {MediaHash} ELSE fs
  /\ UNCHANGED <<Chats, timestampMap, saves, db, nickWrite, scene, last, failed>>
  /\ UNCHANGED ircVars

\* go conn.saveDatabaseEntry(), line 135, when it gets to run: it persists
\* the timestamps as they are then.
SaveDatabaseEntry ==
  /\ ~Crashed /\ saves > 0
  /\ saves' = saves - 1
  /\ db' = timestampMap
  /\ UNCHANGED <<Chats, timestampMap, fs, other, nickWrite, scene, last, failed>>
  /\ UNCHANGED ircVars

Concurrent ==
  \/ \E n \in NickValues : SetNickBegins(n)
  \/ SetNickEnds
  \/ OtherLooksUp
  \/ \E ok \in BOOLEAN : OtherStores(ok)
  \/ SaveDatabaseEntry

NextBridge == Handler \/ Return \/ Concurrent

\* The bridge, beside a session that is not driven but for its nick.
InitSpec == InitBridge /\ InitSession /\ profile = "login"
Spec == InitSpec /\ [][NextBridge]_vars

\* The session, beside a bridge that is not driven.
Reader ==
  \/ DecodeError \/ DecodeEOF \/ DecodeInvalid
  \/ HandlePing \/ HandleQuit \/ HandleNick \/ HandlePass \/ HandleCap
  \/ HandleOther \/ Enqueue \/ ReaderWrite
  \/ \E i \in 1..Len(DeferPc) : RunDeferred(i)

Peer ==
  \/ \E n \in 1..(queueSize + MaxOverflow) : Send(AppLine(n))
  \/ \E line \in HousekeepingLines : Send(line)
  \/ PeerCloses \/ PeerResets

\* The consumer of the session, and the owner of its context.
Consumer == Receive \/ NickSetChannel \/ NickReceived \/ ExternalCancel

Application ==
  \/ Consumer
  \/ \E w \in Writers : WriterCheck(w) \/ WriterWrite(w)

NextSession == Reader \/ Watcher \/ Peer \/ Application

InitIrc == InitBridge /\ InitSession /\ scene = "steady"

SpecIrc == InitIrc /\ [][NextSession]_vars

\* The Go scheduler runs every goroutine that can take a step: the reader
\* and the watcher. The peer and the application owe nothing.
\* The other writers never touch the reader, the queue or the context, so
\* the sessions followed to their end are those without them.
InitTeardown == InitIrc /\ ~Profile[profile].writers
NextTeardown == Reader \/ Watcher \/ Peer \/ Consumer
FairIrc == InitTeardown /\ [][NextTeardown]_vars /\ WF_vars(Reader) /\ WF_vars(Watcher)

\* ------------------------------------------------------------ the claims
\* The handler has returned and the listener has not yet taken the result.
Handled == last.pc = "returned"
OutKinds(out) == [i \in 1..Len(out) |-> out[i].k]
\* A JOIN written for the local user: the join sequence, or a JOIN line
\* whose subject is the local nick.
IsNick(name) == name[1] = "nick"
IsSelfJoin(e) == e.k = "join" \/ (e.k = "irc" /\ e.cmd = "JOIN" /\ IsNick(e.who))
SelfJoins(out) == Cardinality({i \in 1..Len(out) : IsSelfJoin(out[i])})
InSeq(x, q) == \E i \in 1..Len(q) : q[i] = x
AddsSelf(msg) ==
  /\ msg.IsNotification /\ msg.Type = "gp2" /\ msg.Subtype \in {"add", "invite"}
  /\ InSeq(SelfID, msg.RecipientIDs)

\* C1 (as claimed): a message whose ID is already recorded for its chat,
\* delivered again, produces no IRC side effect at all: no JOIN, no relay,
\* no notification line.
C1_RedeliveryIsSilent == (Handled /\ last.seen) => last.out = <<>>

\* C2: handling an add/invite notification naming the local user writes
\* exactly one JOIN for the local user when the group chat was not joined
\* (the auto-join, written first) and none when it was; the notification
\* branch itself never writes a JOIN for the local user. (No JOIN is written
\* when the handler returned the participant-fetch or the join error.)
C2_NoDoubleJoin ==
  (Handled /\ AddsSelf(last.msg)) =>
    /\ SelfJoins(last.out) =
         (IF ~last.joined /\ last.ret \notin {"fetch", "join"} THEN 1 ELSE 0)
    /\ \A i \in 1..Len(last.out) : IsSelfJoin(last.out[i]) => i = 1 /\ last.out[i].k = "join"

\* C2 witness: the notification is the first event recorded for a chat that
\* was not joined, names the local user after another recipient, and wrote
\* the auto-join and the other recipient's JOIN.
C2_Witness ==
  /\ Handled /\ AddsSelf(last.msg) /\ ~last.joined /\ ~last.seen
  /\ Chats[GroupID].MessageIDs = {last.msg.ID}
  /\ last.msg.RecipientIDs = <<"p2", SelfID>>
  /\ last.ret = "nil"
  /\ OutKinds(last.out) = <<"join", "irc">>
  /\ last.out[2].cmd = "JOIN" /\ ~IsNick(last.out[2].who)

IsQuotedInNewGroup(msg) ==
  /\ ~msg.IsNotification /\ msg.Type = "chat" /\ msg.QuotedMessage # <<>>
  /\ RawIsGroupChat(msg.Chat)

\* C3: for a non-notification message with a quoted parent in a group chat
\* that was not joined, the output is at every moment a prefix of: the
\* auto-join, then the quoted relay (quoted flag true), then the primary
\* relay (quoted flag false) with the same from/to; no primary relay
\* follows a quoted relay that returned an error; nothing is written when
\* the join failed; a message that is new, not a web echo and met no error
\* produces all three.
C3_Ordering ==
  (last.pc # "idle" /\ IsQuotedInNewGroup(last.msg) /\ ~last.joined) =>
    LET o == last.out IN
    /\ last.ret = "join" => o = <<>>
    /\ Len(o) <= 3
    /\ \A i \in 1..Len(o) : o[i].k = (IF i = 1 THEN "join" ELSE "fn")
    /\ Len(o) >= 2 => o[2].quoted /\ o[2].id = last.msg.ID
    /\ Len(o) = 3 => /\ o[2].ok /\ ~o[3].quoted
                     /\ o[3].from = o[2].from /\ o[3].to = o[2].to
                     /\ o[3].id = last.msg.ID
    /\ (last.pc \in Ends /\ Len(o) = 2) => ~o[2].ok
    /\ (Handled /\ last.ret = "nil" /\ ~last.seen /\ ~last.msg.IsSentByMeFromWeb)
         => Len(o) = 3

C3_Witness ==
  /\ Handled /\ IsQuotedInNewGroup(last.msg) /\ ~last.joined
  /\ OutKinds(last.out) = <<"join", "fn", "fn">>
  /\ last.out[2].quoted /\ ~last.out[3].quoted /\ last.ret = "nil"

\* The handler takes a step.
HandlerMoves == last' # last
\* The delivered message is strictly newer than the timestamp its chat had
\* when it came (or the chat had none).
NewerThanStored(l) == l.stored = NoTimestamp \/ l.msg.Timestamp > l.stored

\* C4 (as claimed): the stored timestamp never decreases, and persistence is
\* started if and only if the delivered message is not a duplicate and its
\* timestamp is strictly newer than the stored one (or none is stored).
C4_AsClaimed ==
  /\ [][\A c \in ChatIDs : timestampMap'[c] >= timestampMap[c]]_vars
  /\ [](Handled => (last.saved <=> (~last.seen /\ NewerThanStored(last))))

\* The message got as far as the dedup check: it is no e2e_notification and
\* neither the participant fetch nor the join failed.
ReachedDedup(l) == l.msg.Type # "e2e_notification" /\ l.ret \notin {"fetch", "join"}

\* C4 (amended): the stored timestamp never decreases and changes only in
\* the step that starts persistence, to the message's timestamp;
\* persistence is started if and only if the message got as far as the
\* dedup check, is not a duplicate, and its timestamp is strictly newer
\* than the stored one (or none is stored); then the map holds the
\* message's timestamp, and otherwise the map is unchanged.
C4_TimestampMonotone ==
  /\ [][ /\ \A c \in ChatIDs : timestampMap'[c] >= timestampMap[c]
         /\ timestampMap' # timestampMap <=> (HandlerMoves /\ ~last.saved /\ last'.saved)
         /\ timestampMap' # timestampMap =>
              timestampMap' = [timestampMap EXCEPT ![last'.msg.Chat] = last'.msg.Timestamp]
       ]_vars
  /\ [](Handled =>
          /\ last.saved <=> /\ ReachedDedup(last)
                            /\ ~last.seen
                            /\ NewerThanStored(last)
          /\ timestampMap[last.msg.Chat] =
               (IF last.saved THEN last.msg.Timestamp ELSE last.stored))

\* C4 witness: a new message with an older timestamp than the stored one was
\* recorded and relayed, and started no persistence.
C4_Witness ==
  /\ Handled /\ ~last.seen /\ ~last.saved /\ last.ret = "nil"
  /\ last.msg.Type = "chat" /\ Len(last.out) > 0
  /\ last.msg.ID \in Chats[last.msg.Chat].MessageIDs
  /\ last.msg.Timestamp < timestampMap[last.msg.Chat]

\* ------------------------------------------------- the claims: the session
Tagged(e) == e.tag # NoTag
IsCapAck(m) == m.head = <<":whapp-irc", "CAP", "*", "ACK">>
Between(i, j, k) == i < j /\ j < k
ReaderCauses == {"EOF", "error", "QUIT"}
ReaderStopped == rpc \in {DeferPc[1], DeferPc[2], "done", "panic"}
HousekeepingCommands == {"PING", "QUIT", "NICK", "PASS", "CAP"}
\* What the consumer has or will have: received, queued, being enqueued.
Inbound == received \o receiveCh \o (IF rpc = "send" THEN <<cur>> ELSE <<>>)
IsPrefix(a, b) == Len(a) <= Len(b) /\ SubSeq(b, 1, Len(a)) = a

\* C5: under every interleaving of the reader and the other writers, what
\* is on the socket is a concatenation of whole lines: a chunk that does
\* not end its line is followed at once by the rest of the same line,
\* from the same writer.
C5_WholeLines ==
  \A i \in 1..Len(sock) :
    \/ sock[i].nl
    \/ /\ i < Len(sock)
       /\ sock[i + 1].by = sock[i].by
       /\ sock[i + 1].nl
    \/ /\ i = Len(sock)
       /\ IF sock[i].by = "reader" THEN rpc = "write" /\ rq # <<>>
          ELSE writers[sock[i].by].pc = "write"
\* The lister's two lines with a line of the reader between them, and the
\* translator's line on the socket as well.
C5_Witness ==
  /\ \E i, j, k \in 1..Len(sock) :
       /\ Between(i, j, k)
       /\ sock[i].by = "lister" /\ sock[j].by = "reader" /\ sock[k].by = "lister"
  /\ \E i \in 1..Len(sock) : sock[i].by = "translator"

\* C6: a line written by Write carries the @time= prefix, in UTC and
\* milliseconds, exactly when server-time was in the capability set at
\* Write's check; a session without server-time has no prefixed line, the
\* ACK that grants it is prefixed, and so is every later line of the reader.
C6_ServerTimeTagging ==
  /\ \A i \in 1..Len(sock) :
       /\ Tagged(sock[i]) <=> sock[i].had
       /\ Tagged(sock[i]) => \E t \in Times : sock[i].tag = <<"UTC", t \div 1000>>
       /\ (IsCapAck(sock[i].msg)
             /\ \E n \in 1..Len(sock[i].msg.caps) : sock[i].msg.caps[n] = "server-time")
          => Tagged(sock[i])
  /\ ~Has(caps, "server-time") => \A i \in 1..Len(sock) : ~Tagged(sock[i])
  /\ \A i, j \in 1..Len(sock) :
       (i < j /\ sock[i].by = "reader" /\ sock[j].by = "reader" /\ Tagged(sock[i]))
       => Tagged(sock[j])
\* A line without the prefix, then the prefixed ACK, then a prefixed line
\* of another writer.
C6_Witness ==
  \E i, j, k \in 1..Len(sock) :
    /\ Between(i, j, k)
    /\ ~Tagged(sock[i])
    /\ IsCapAck(sock[j].msg) /\ Tagged(sock[j])
    /\ sock[k].by # "reader" /\ Tagged(sock[k])

\* C7: the consumer receives exactly the application commands that arrived
\* before the first QUIT, read error or EOF, in arrival order, none of them
\* a PING, QUIT, NICK, PASS or CAP: what it has or will have is the
\* commands numbered 1..k, and the reader never stops for another reason
\* while a command is still waiting.
C7_FilteringAndOrder ==
  /\ \A i \in 1..Len(Inbound) :
       /\ Inbound[i].Command \notin HousekeepingCommands
       /\ Inbound[i] = AppLine(i)
  /\ ~(/\ stopCause = "panic"
       /\ \E i \in 1..Len(inbuf) : inbuf[i].Command \notin HousekeepingCommands \cup {""})

\* C8: once the reader loop has ended on EOF, a read error or QUIT, the
\* inbound queue gets closed, the context cancelled and the socket closed;
\* from the moment the loop has ended nothing is decoded or enqueued; what
\* the queue holds can still be received.
C8_Teardown ==
  /\ [](stopCause \in ReaderCauses => ReaderStopped)
  /\ [][ReaderStopped =>
          /\ ReaderStopped'
          /\ inbuf' = <<>> \/ IsPrefix(inbuf, inbuf')
          /\ receiveCh' = receiveCh \/ receiveCh' = Tail(receiveCh)]_vars
  /\ []((stopCause \in ReaderCauses /\ chClosed /\ receiveCh # <<>>)
          => ENABLED Receive)
  /\ (stopCause \in ReaderCauses) ~> (chClosed /\ ctxDone /\ sockClosed)
\* After a QUIT the queue is closed, the context done, the socket closed,
\* by the reader itself, and the consumer takes a message it still held.
C8_Witness ==
  /\ stopCause = "QUIT" /\ ~extCancel
  /\ chClosed /\ ctxDone /\ sockClosed
  /\ receiveCh # <<>> /\ received # <<>>

\* C9: cancelling the owning context eventually closes the socket, ends
\* the reader goroutine and closes the inbound queue (here not counting a
\* reader that died in a panic or waits for the nick listener).
C9_CancelStopsReader ==
  extCancel ~> \/ sockClosed /\ rpc = "done" /\ chClosed
               \/ rpc \in {"panic", "emit"}

\* C10, as claimed: passCh is closed exactly once in the life of a
\* session, also in a session that ends without a PASS line.
C10_AsClaimed ==
  /\ passStats.closes <= 1
  /\ rpc = "done" => passStats.closes = 1
\* C10: passCh is closed at most once, by the first PASS line processed;
\* later PASS lines do not close it again and do not panic on a second
\* close, and without a PASS line it stays open.
C10_PassReadyOnce ==
  /\ passStats.closes = (IF passStats.lines > 0 THEN 1 ELSE 0)
  /\ passCh = "closed" <=> passStats.lines > 0
  /\ passOnce <=> passStats.lines > 0
  /\ stopCause = "panic" => cur.Command # "PASS"
\* Two PASS lines processed, one close.
C10_Witness ==
  /\ passStats.lines = 2 /\ passStats.closes = 1
  /\ passCh = "closed" /\ Alive

\* C11: the inbound queue never holds more than queueSize messages; while
\* it is full the reader stays at the enqueue with the same message and
\* decodes nothing; every application command the reader decodes joins what
\* the consumer has or will have, exactly once, in order, and nothing
\* leaves it.
C11_Backpressure ==
  /\ [](/\ Len(receiveCh) <= queueSize
        /\ \A i \in 1..Len(Inbound) : Inbound[i] = AppLine(i))
  /\ [][ /\ IsPrefix(Inbound, Inbound')
         /\ (rpc = "decode" /\ rpc' = "send") => Inbound' = Append(Inbound, Head(inbuf))
         /\ (rpc = "send" /\ Len(receiveCh) = queueSize /\ receiveCh' = receiveCh)
            => (rpc' = "send" /\ cur' = cur /\ Inbound' = Inbound) ]_vars
\* The consumer has taken messages, the queue is full again, the reader
\* waits at the enqueue and a further line waits on the socket.
C11_Witness ==
  /\ Len(receiveCh) = queueSize /\ rpc = "send"
  /\ received # <<>> /\ inbuf # <<>>
  /\ cur = AppLine(Len(received) + queueSize + 1)

\* The reader's replies to PING on the socket, and the reader about to
\* write one.
IsPong(e) == e.by = "reader" /\ InSeq("PONG", e.msg.head)
AnsweringPing == rpc = "write" /\ cur.Command = "PING"
NoPingQueued == \A i \in 1..Len(Inbound) : Inbound[i].Command # "PING"
PongAppended == Len(sock') = Len(sock) + 1 /\ IsPong(sock'[Len(sock')])
ReaderWaits ==
  /\ rpc' = rpc /\ cur' = cur /\ rq' = rq
  /\ sock' = sock \/ (Len(sock') = Len(sock) + 1 /\ sock'[Len(sock')].by # "reader")
\* The reply to the PING in cur, in the given form, is written, or cannot
\* be written because the socket is closed or reset, or the reader has not
\* moved; and no reply is written at any other moment.
AnswersWith(head) ==
  /\ AnsweringPing =>
       \/ /\ ~SocketBroken
          /\ PongAppended
          /\ sock'[Len(sock')].msg = Text(head, cur.Params[1], <<>>)
          /\ rpc' = "decode"
       \/ SocketBroken /\ sock' = sock /\ rpc' = DeferPc[1]
       \/ ReaderWaits
  /\ PongAppended => AnsweringPing
  /\ (cur' # cur /\ cur'.Command = "PING" /\ Len(cur'.Params) > 0) => rpc' = "write"

\* C12, as claimed: every PING <token> gets exactly one reply
\* "PONG whapp-irc whapp-irc :<token>" with the same token before the reader
\* reads on, and the PING is not put on the inbound queue.
C12_AsClaimed ==
  /\ []NoPingQueued
  /\ [][AnswersWith(<<"PONG", "whapp-irc", "whapp-irc">>)]_vars
\* C12: every PING <token> gets exactly one reply
\* ":whapp-irc PONG whapp-irc :<token>" (the server name as prefix, one
\* parameter, the token trailing) with the same token before the reader
\* reads on, unless the socket is already closed or reset, which ends the
\* reader; the PING is not put on the inbound queue.
C12_Keepalive ==
  /\ []NoPingQueued
  /\ [][AnswersWith(<<":whapp-irc", "PONG", "whapp-irc">>)]_vars
\* Two PINGs answered in their order, each with its own token, and an
\* application command passed on.
C12_Witness ==
  /\ \E i, j \in 1..Len(sock) :
       /\ i < j /\ IsPong(sock[i]) /\ IsPong(sock[j])
       /\ sock[i].msg.token = "t2" /\ sock[j].msg.token = "t1"
  /\ Inbound # <<>> /\ rpc = "decode"

\* ---------------------------------------- the claims: the bridge, continued
\* What the notification branch wrote: the output after the auto-join.
NotifOut(l) ==
  IF Len(l.out) > 0 /\ l.out[1].k = "join" THEN Tail(l.out) ELSE l.out
IsGp2(msg, subs) ==
  msg.IsNotification /\ msg.Type = "gp2" /\ msg.Subtype \in subs
\* The IRC names an upstream ID can resolve to when the local nick is n.
NamesOf(id, n) ==
  IF id = SelfID THEN {Nick(n)} ELSE {SafeName(id), Identifier(id), User(id)}
Actor(msg) == IF msg.Sender # "nil" THEN msg.Sender ELSE msg.From

\* The values conn.nick has held since the handler started, one being
\* stored included.
NickOrder == <<"", "alice", "bob">>
Place(n) == CHOOSE i \in 1..Len(NickOrder) : NickOrder[i] = n
HeldNicks(l) ==
  {NickOrder[i] : i \in Place(l.nickIn)..Place(nick)}
  \cup (IF nickWrite # NoWrite THEN {nickWrite} ELSE {})

\* C13, as claimed: a remove notification that is processed writes, for
\* each recipient in order, exactly the line ":A KICK C Ri" at the
\* notification's own event time, with the local nick (one nick the
\* session has had while the notification is handled) for the local user
\* as actor and as recipient, and no other line; when a write fails the
\* lines before it are the ones written.
C13_RemoveKicks ==
  (Handled /\ IsGp2(last.msg, {"remove"}) /\ ~last.seen
     /\ last.ret \in {"nil", "write"}) =>
    LET o == NotifOut(last)
        r == last.msg.RecipientIDs
    IN /\ IF last.ret = "nil" THEN Len(o) = Len(r) ELSE Len(o) < Len(r)
       /\ \E n \in HeldNicks(last) :
            \A i \in 1..Len(o) :
              /\ o[i].k = "irc" /\ o[i].cmd = "KICK"
              /\ o[i].time = <<"unix", last.msg.Timestamp>>
              /\ o[i].chan = Identifier(last.msg.Chat)
              /\ o[i].who \in NamesOf(Actor(last.msg), n)
              /\ o[i].arg \in NamesOf(r[i], n)
              /\ o[i].who = o[1].who

KnownSubtypes == {"create", "add", "invite", "leave", "remove", "miss"}
IsUnknownGp2(msg) ==
  /\ msg.IsNotification /\ msg.Type = "gp2" /\ msg.Subtype \notin KnownSubtypes
  /\ Len(msg.RecipientIDs) >= 1
JoinedNow(l) == ByID(Chats, l.msg.Chat).Joined

\* C14, as claimed: a gp2 notification with an unknown subtype and at
\* least one recipient writes nothing, returns no error and leaves the
\* chat's Joined flag as it was, whether or not the chat was joined.
C14_AsClaimed ==
  (Handled /\ IsUnknownGp2(last.msg)) =>
    /\ last.out = <<>>
    /\ last.ret = "nil"
    /\ JoinedNow(last) = last.joined
\* C14: for such a notification the notification branch writes nothing,
\* returns no error and does not touch Joined. On a joined chat that is
\* all; on a chat not yet joined the auto-join comes first: it writes the
\* join sequence and sets Joined, or the participant fetch or the join
\* fails and that error is returned.
C14_UnknownSubtype ==
  (Handled /\ IsUnknownGp2(last.msg)) =>
    /\ NotifOut(last) = <<>>
    /\ last.ret \in {"nil", "fetch", "join"}
    /\ last.joined => (last.out = <<>> /\ last.ret = "nil")
    /\ ~last.joined => (last.out = <<>> <=> last.ret # "nil")
    /\ JoinedNow(last) = (last.joined \/ last.ret = "nil")
\* A poll_vote naming the local user, new for a joined chat: recorded,
\* nothing written, no error, still joined.
C14_Witness ==
  /\ Handled /\ IsUnknownGp2(last.msg) /\ last.msg.Subtype = "poll_vote"
  /\ InSeq(SelfID, last.msg.RecipientIDs)
  /\ last.joined /\ ~last.seen
  /\ last.msg.ID \in Chats[last.msg.Chat].MessageIDs
  /\ last.out = <<>> /\ last.ret = "nil" /\ JoinedNow(last)

\* The delivered message gets as far as downloadAndStoreMedia: it is new,
\* no notification, no web echo, and nothing failed before.
ReachesMedia(l) ==
  /\ ReachedDedup(l) /\ ~l.seen
  /\ ~l.msg.IsNotification /\ ~l.msg.IsSentByMeFromWeb
Lookup == <<"GetFileByHash">>
LookupDownload == <<"GetFileByHash", "DownloadMedia">>
LookupDownloadStore == <<"GetFileByHash", "DownloadMedia", "AddBlob">>

\* C15: a blob once stored stays stored, and on this connection only the
\* handler's AddBlob stores one. The handler's lookup of a stored hash is
\* its only call: no download, no store. On a miss it makes one download,
\* and one store if the download succeeded, and the hash is stored from
\* then on if both succeeded: so after the first success DownloadMedia and
\* AddBlob are never called again for that hash. A message that is no
\* media makes no lookup, download or store.
C15_MediaReuse ==
  /\ [][ LET H == last.msg.MediaFileHash IN
         /\ fs \subseteq fs'
         /\ (HandlerMoves /\ last.pc # "store") => fs' = fs
         /\ (HandlerMoves /\ last.pc = "lookup") =>
              /\ last'.calls = Lookup
              /\ last'.pc = (IF H \in fs THEN "body" ELSE "download")
         /\ (HandlerMoves /\ last.pc = "download") =>
              /\ last'.calls = LookupDownload
              /\ last'.pc = "store" \/ last'.ret = "download"
         /\ (HandlerMoves /\ last.pc = "store") =>
              /\ last'.calls = LookupDownloadStore
              /\ fs' = (IF last'.ret = "store" THEN fs ELSE fs \cup {H})
       ]_vars
  /\ [](Handled =>
          LET calls == last.calls
              H == last.msg.MediaFileHash
          IN /\ (ReachesMedia(last) /\ last.msg.IsMMS) <=> calls # <<>>
             /\ calls \in {<<>>, Lookup, LookupDownload, LookupDownloadStore}
             /\ calls = LookupDownload <=> last.ret = "download"
             /\ last.ret = "store" => calls = LookupDownloadStore
             /\ (calls # <<>> /\ last.ret \notin {"download", "store"}) => H \in fs)
\* A second media message with the stored hash, where no other connection
\* stores: the lookup only, and the relay carries the blob.
C15_Witness ==
  /\ scene = "steady"
  /\ Handled /\ last.msg.IsMMS /\ ~last.seen
  /\ last.calls = Lookup /\ last.ret = "nil"
  /\ last.msg.MediaFileHash \in fs
  /\ last.out[Len(last.out)].body.res[1] = "url"
  /\ Cardinality(Chats[GroupID].MessageIDs) + Cardinality(Chats[DirectID].MessageIDs) >= 2

\* C16: when joinChat fails the handler returns that error, relays
\* nothing, and the message is marked seen, so that a redelivery is
\* deduplicated and causes no second join attempt.
C16_JoinFailureMarksSeen ==
  (Handled /\ last.ret = "join") =>
    /\ \A i \in 1..Len(last.out) : last.out[i].k # "fn"
    /\ HasMessageID(ByID(Chats, last.msg.Chat), last.msg.ID)

FailedBefore(l) ==
  l.seen /\ \E f \in failed :
              f.chat = l.msg.Chat /\ f.id = l.msg.ID /\ f.listed

\* C17: a message that failed at or after the media, quote and body steps
\* stays in its chat's seen set and the timestamp it stored is kept, and
\* every later redelivery of it relays nothing and returns no error.
C17_FailedStaysSeen ==
  /\ \A f \in failed :
       /\ HasMessageID(ByID(Chats, f.chat), f.id)
       /\ timestampMap[f.chat] # NoTimestamp
  /\ (Handled /\ FailedBefore(last)) =>
       /\ \A i \in 1..Len(last.out) : last.out[i].k # "fn"
       /\ last.ret = "nil"

\* C18: when the participant fetch fails for a chat that is not in the
\* registry, the handler returns that error and nothing else has happened,
\* neither before the fetch nor after it: no chat registered, no message
\* ID recorded, no timestamp stored, no persistence started, nothing
\* written, no blob stored. The message is not marked seen, so a
\* redelivery meets the state a new message meets.
C18_FetchFailure ==
  /\ [][(HandlerMoves /\ (last'.pc = "fetch" \/ last'.ret = "fetch")) =>
          /\ ~ByID(Chats, last'.msg.Chat).has
          /\ last'.pc = "fetch" \/ last.pc = "fetch"
          /\ Chats' = Chats /\ timestampMap' = timestampMap /\ fs' = fs
          /\ saves' = saves
          /\ last'.out = <<>> /\ last'.calls = <<>> /\ ~last'.saved
          /\ ~HasMessageID(ByID(Chats', last'.msg.Chat), last'.msg.ID) ]_vars
  /\ []((Handled /\ last.ret = "fetch") =>
          /\ ~ByID(Chats, last.msg.Chat).has
          /\ ~last.seen /\ ~last.joined
          /\ timestampMap[last.msg.Chat] = last.stored)
\* The fetch failed for the group chat while the direct chat is known: the
\* group chat is still unknown and has no timestamp.
C18_Witness ==
  /\ Handled /\ last.ret = "fetch" /\ last.msg.Chat = GroupID
  /\ ~Chats[GroupID].has /\ Chats[DirectID].has
  /\ timestampMap[GroupID] = NoTimestamp /\ timestampMap[DirectID] # NoTimestamp

\* A leave or remove naming the local user that got to the notification
\* branch: not deduplicated, no web echo, nothing failed before.
LeavesSelf(l) ==
  /\ IsGp2(l.msg, {"leave", "remove"}) /\ InSeq(SelfID, l.msg.RecipientIDs)
  /\ ~l.seen /\ ~l.msg.IsSentByMeFromWeb /\ ReachedDedup(l)
SelfIndex(r) == CHOOSE i \in 1..Len(r) : r[i] = SelfID
WroteJoinFirst(l) == Len(l.out) > 0 /\ l.out[1].k = "join"
\* Joined goes from false to true only with the join sequence written, and
\* from true to false only by a leave or remove naming the local user; a
\* group chat found not joined is joined again, or the join fails.
FlagFollowsJoinAndLeave ==
  /\ (~last.joined /\ JoinedNow(last)) => WroteJoinFirst(last)
  /\ (last.joined /\ ~JoinedNow(last)) => LeavesSelf(last)
  /\ (~JoinedNow(last) /\ WroteJoinFirst(last)) => LeavesSelf(last)
  /\ (RawIsGroupChat(last.msg.Chat) /\ ~last.joined
        /\ last.msg.Type # "e2e_notification" /\ last.ret # "fetch")
     => (WroteJoinFirst(last) \/ (last.ret = "join" /\ last.out = <<>>))

\* C19, as claimed: the transitions of Joined as above, and every leave or
\* remove naming the local user that is processed (not deduplicated, not a
\* web echo) leaves Joined false.
C19_AsClaimed ==
  Handled => /\ FlagFollowsJoinAndLeave
             /\ LeavesSelf(last) => ~JoinedNow(last)
\* C19: the transitions of Joined as above, and a leave or remove naming
\* the local user that is processed leaves Joined false exactly when the
\* local user's own line was written: a write error at or before that
\* line returns with Joined still true.
C19_JoinedTransitions ==
  Handled => /\ FlagFollowsJoinAndLeave
             /\ LeavesSelf(last) =>
                  /\ ~JoinedNow(last) <=>
                       Len(NotifOut(last)) >= SelfIndex(last.msg.RecipientIDs)
                  /\ last.ret = "nil" => ~JoinedNow(last)
                  /\ JoinedNow(last) => last.ret = "write"
\* A message for a group chat that was joined, then left by the local
\* user: the chat has seen an earlier message, is found not joined, and
\* is joined again.
C19_Witness ==
  /\ Handled /\ ~last.joined /\ ~last.seen /\ WroteJoinFirst(last)
  /\ ~last.msg.IsNotification /\ last.ret = "nil"
  /\ Cardinality(Chats[last.msg.Chat].MessageIDs) = 2
  /\ JoinedNow(last)

BareCommands == {"PING", "NICK", "CAP"}
IsBare(l) == l.Command \in BareCommands /\ Len(l.Params) = 0
\* C20: no valid inbound line crashes the reader, a PING, NICK or CAP
\* without parameters included: the reader is never in the crashed state
\* with such a line as the one it was handling, and when its loop has
\* ended it has ended on QUIT, EOF, a socket error or cancellation.
C20_BareCommandsSurvive ==
  /\ ~(stopCause = "panic" /\ IsBare(cur))
  /\ ReaderStopped => stopCause \in ReaderCauses \cup {"write error"}

====
